---- MODULE Spec2Model ----
(***************************************************************************)
(* Model of the video2x transcoding pipeline:                              *)
(*   src/src/libvideo2x.cpp  process_frames, process_video                 *)
(*   src/src/encoder.cpp     Encoder::init, Encoder::write_frame,          *)
(*                           Encoder::flush                                *)
(* The decoder, the filter, the encoder and the muxer are external         *)
(* libraries; each is modelled as a FIFO with a fixed latency, and every   *)
(* call into them may fail.                                                *)
(***************************************************************************)
EXTENDS Integers, Sequences, FiniteSets, TLC

\* ------------------------------------------------------------------ bounds
MaxPackets   == 2    \* packets av_read_frame delivers before end of stream
MaxDelay     == 1    \* frames the decoder or the encoder may hold back
MaxFiltDelay == 2    \* frames the filter may hold back
MaxStreams   == 3    \* streams of an input container given to Encoder::init
PtsStep      == 2    \* pts distance of two consecutive input packets

\* ------------------------------------------------------- program constants
AVERROR_EAGAIN   == -11
AVERROR_ENOMEM   == -12
AVERROR_EOF      == -541478725
AVERROR_EXTERNAL == -542398533
AVERROR_UNKNOWN  == -1313558101
OPENCV_FAILED    == -1

\* Status codes an external call (demuxer, codec, filter, muxer) may fail with.
ExtErrors == {-5}

NoFrame  == [id |-> 0, pts |-> 0]
NoPacket == [stream_index |-> -1, id |-> 0, pts |-> 0]
NoMark   == [nread |-> -1, muxed |-> -1, processed |-> -1, flush |-> -1]

VARIABLES
    \* input container and configuration
    streams,          \* ifmt_ctx->streams[i]->codecpar->codec_type, 0-based
    vstream_idx,      \* index of the designated input video stream
    copy_streams,     \* encoder_config->copy_streams
    benchmark,        \* benchmark flag of process_video
    dec_delay,        \* latency of the decoder (frames held back)
    filt_delay,       \* latency of the filter
    enc_delay,        \* latency of the encoder
    in_time_base,     \* ifmt_ctx->streams[i]->time_base
    out_time_base,    \* time_base of the output stream input stream i is mapped to
    \* Encoder members
    stream_map,       \* stream_map_ (<<>> while nullptr)
    out_streams,      \* ofmt_ctx_->streams, 0-based, the type of each
    out_vstream_idx,  \* out_vstream_idx_
    \* VideoProcessingContext
    pause,
    abort,
    mark,             \* where the run stood when the controller last set pause
    processed_frames,
    \* locals of process_frames / write_frame / flush
    pc,
    ret,
    packet,
    frame,
    processed_frame,
    flushed_frames,
    flush_pos,        \* position of the range-for over flushed_frames (1-based)
    wf_caller,        \* call site write_frame returns to: "loop" | "flushed"
    sleeping,         \* the last pass of the receive loop slept on pause
    \* external collaborators
    nread,            \* packets delivered by av_read_frame so far
    dec_buf,          \* frames inside the decoder
    filt_buf,         \* frames inside the filter
    enc_buf,          \* frames inside the encoder
    enc_eof,          \* the encoder has been sent the NULL frame
    muxed,            \* packets written by av_interleaved_write_frame
    trailer,          \* av_write_trailer has run
    held,             \* frames and packets allocated and not yet freed
    \* history
    log               \* calls made so far, in order

cfgVars  == <<streams, vstream_idx, copy_streams, benchmark, dec_delay, filt_delay, enc_delay,
              in_time_base, out_time_base>>
encVars  == <<stream_map, out_streams, out_vstream_idx>>
ctlVars  == <<pause, abort, mark>>
locVars  == <<packet, frame, processed_frame, flushed_frames, flush_pos, wf_caller>>
extVars  == <<nread, dec_buf, filt_buf, enc_buf, enc_eof, muxed, trailer>>
vars == <<streams, vstream_idx, copy_streams, benchmark, dec_delay, filt_delay, enc_delay,
          in_time_base, out_time_base,
          stream_map, out_streams, out_vstream_idx, pause, abort, mark, processed_frames,
          pc, ret, packet, frame, processed_frame, flushed_frames, flush_pos, wf_caller,
          sleeping, nread, dec_buf, filt_buf, enc_buf, enc_eof, muxed, trailer, held, log>>

\* ----------------------------------------------------------------- helpers
EvP(op, id, pts) == [op |-> op, id |-> id, pts |-> pts]
Ev(op, id) == EvP(op, id, 0)
Logged(op) == {i \in 1..Len(log) : log[i].op = op}
Count(op)  == Cardinality(Logged(op))

\* An allocated AVFrame or AVPacket, named after the pointer that owns it; k
\* tells the elements of flushed_frames apart.
Res(name) == [r |-> name, k |-> 0]
FlushedRes(i) == [r |-> "flushed_frame", k |-> i]

\* av_frame_free / av_packet_free: frees what the pointer holds and sets the
\* pointer to NULL, so a second call frees nothing.
Free(h, x) == h \ {x}

\* The cleanup lambda of process_frames (lines 85-94).
Cleanup(h) == {x \in h : x.r \notin {"frame", "packet", "flushed_frame"}}

\* The input containers the control loop is run on: video alone, video after
\* an audio stream, video before a data stream.
Layouts ==
    {[i \in 0..0 |-> "video"],
     [i \in 0..1 |-> IF i = 0 THEN "audio" ELSE "video"],
     [i \in 0..1 |-> IF i = 0 THEN "video" ELSE "data"]}

\* The input containers the copy branch is run on: the video stream behind a
\* copied stream, and between two copied streams.
CopyLayouts ==
    {[i \in 0..1 |-> IF i = 0 THEN "audio" ELSE "video"],
     [i \in 0..2 |-> IF i = 0 THEN "subtitle" ELSE IF i = 1 THEN "video" ELSE "audio"]}

\* Stream time bases (AVRational): 1/1, 1/2, 1/3 of a second.
UnitTimeBase == [num |-> 1, den |-> 1]
TimeBases == {[num |-> 1, den |-> d] : d \in 1..3}

\* av_rescale_q with its two time bases taken in the wrong order.
av_rescale_q_Swapped(a, bq, cq) ==
    LET b == cq.num * bq.den
        c == bq.num * cq.den
    IN  IF a >= 0 THEN (a * b + c \div 2) \div c
        ELSE -((-a * b + c \div 2) \div c)

\* av_rescale_q(a, bq, cq), which av_packet_rescale_ts applies to the
\* timestamps of a packet: a * bq / cq rounded to the nearest integer, halves
\* away from zero.
av_rescale_q(a, bq, cq) ==
    LET b == bq.num * cq.den
        c == cq.num * bq.den
    IN  IF a >= 0 THEN (a * b + c \div 2) \div c
        ELSE -((-a * b + c \div 2) \div c)

\* The media types Encoder::init tells apart: audio and subtitle are copied,
\* "data" stands for every other type.
StreamTypes == {"video", "audio", "subtitle", "data"}

\* All lists of up to MaxStreams input streams, as functions over 0..n-1.
StreamLists == UNION {[0..(n - 1) -> StreamTypes] : n \in 1..MaxStreams}

\* The pts values the next packet of input stream idx may carry: a video
\* packet may come without one.
PacketPts(idx, n) ==
    IF idx = vstream_idx THEN {0, PtsStep * n} ELSE {PtsStep * n}


\* ------------------------------------------------------------ Encoder::init
\* The stream-mapping loop of Encoder::init from input stream i on: m is the
\* map built so far, outs the output streams created so far.
\* MapStreams without the branch for the input video stream (lines 160-163).
RECURSIVE MapStreams_NoVideoBranch(_, _, _, _, _)
MapStreams_NoVideoBranch(i, m, outs, in_streams, in_vstream_idx) ==
    IF i >= Cardinality(DOMAIN in_streams)
    THEN [map |-> m, outs |-> outs]
    ELSE IF in_streams[i] # "audio" /\ in_streams[i] # "subtitle"
         THEN MapStreams_NoVideoBranch(i + 1, [m EXCEPT ![i] = -1], outs,
                                       in_streams, in_vstream_idx)
         ELSE MapStreams_NoVideoBranch(i + 1, [m EXCEPT ![i] = Len(outs)],
                                       Append(outs, in_streams[i]), in_streams, in_vstream_idx)

\* MapStreams without the test of the media type (lines 166-171).
RECURSIVE MapStreams_AllTypes(_, _, _, _, _)
MapStreams_AllTypes(i, m, outs, in_streams, in_vstream_idx) ==
    IF i >= Cardinality(DOMAIN in_streams)
    THEN [map |-> m, outs |-> outs]
    ELSE IF i = in_vstream_idx
         THEN MapStreams_AllTypes(i + 1, [m EXCEPT ![i] = 0], outs, in_streams, in_vstream_idx)
         ELSE MapStreams_AllTypes(i + 1, [m EXCEPT ![i] = Len(outs)],
                                  Append(outs, in_streams[i]), in_streams, in_vstream_idx)

\* MapStreams storing the index of the last stream created before the new one.
RECURSIVE MapStreams_StaleIndex(_, _, _, _, _)
MapStreams_StaleIndex(i, m, outs, in_streams, in_vstream_idx) ==
    IF i >= Cardinality(DOMAIN in_streams)
    THEN [map |-> m, outs |-> outs]
    ELSE IF i = in_vstream_idx
         THEN MapStreams_StaleIndex(i + 1, [m EXCEPT ![i] = 0], outs, in_streams, in_vstream_idx)
         ELSE IF in_streams[i] # "audio" /\ in_streams[i] # "subtitle"
              THEN MapStreams_StaleIndex(i + 1, [m EXCEPT ![i] = -1], outs,
                                         in_streams, in_vstream_idx)
              ELSE MapStreams_StaleIndex(i + 1, [m EXCEPT ![i] = Len(outs) - 1],
                                         Append(outs, in_streams[i]), in_streams, in_vstream_idx)

RECURSIVE MapStreams(_, _, _, _, _)
MapStreams(i, m, outs, in_streams, in_vstream_idx) ==
    IF i >= Cardinality(DOMAIN in_streams)
    THEN [map |-> m, outs |-> outs]
    ELSE IF i = in_vstream_idx
         THEN MapStreams(i + 1, [m EXCEPT ![i] = 0], outs, in_streams, in_vstream_idx)
         ELSE IF in_streams[i] # "audio" /\ in_streams[i] # "subtitle"
              THEN MapStreams(i + 1, [m EXCEPT ![i] = -1], outs, in_streams, in_vstream_idx)
              ELSE MapStreams(i + 1, [m EXCEPT ![i] = Len(outs)],
                              Append(outs, in_streams[i]), in_streams, in_vstream_idx)

\* Encoder::init: one output video stream, then the other streams when
\* copy_streams is set; without it stream_map_ stays nullptr.
EncoderInit ==
    /\ pc = "init"
    /\ \/ /\ LET r == MapStreams(0, [i \in DOMAIN streams |-> -1], <<"video">>,
                                 streams, vstream_idx)
             IN  /\ out_vstream_idx' = 0
                 /\ IF copy_streams
                    THEN stream_map' = r.map /\ out_streams' = r.outs
                    ELSE stream_map' = <<>> /\ out_streams' = <<"video">>
          /\ ret' = 0
          /\ pc' = "start"
       \/ /\ ret' = AVERROR_UNKNOWN
          /\ pc' = "done"
          /\ UNCHANGED encVars
    /\ UNCHANGED <<held, cfgVars, ctlVars, processed_frames, locVars, sleeping, extVars, log>>

\* ------------------------------------------------------------ process_frames
\* Lines 44-94: frame-count probe and allocation of frame and packet.
ProcessFramesStart ==
    /\ pc = "start"
    /\ \/ pc' = "read" /\ ret' = ret /\ held' = held \cup {Res("frame"), Res("packet")}
       \/ pc' = "returned" /\ ret' \in {OPENCV_FAILED, AVERROR_ENOMEM} /\ held' = held
    /\ UNCHANGED <<cfgVars, encVars, ctlVars, processed_frames, locVars, sleeping, extVars, log>>

\* The outer loop condition, while (!proc_ctx->abort), read as true: the loop
\* is left and control falls through to the statements after it.
ReadAbort ==
    /\ pc = "read"
    /\ abort
    /\ pc' = "filter_flush"
    /\ log' = Append(log, Ev("abort_read", 0))
    /\ UNCHANGED <<held, cfgVars, encVars, ctlVars, processed_frames, ret, locVars, sleeping, extVars>>

\* Where a packet of input stream idx goes (lines 110 and 167).
\* Route without the test of the stream map entry (line 167).
Route_NoMapTest(idx) ==
    IF idx = vstream_idx THEN "send_packet"
    ELSE IF copy_streams THEN "copy"
    ELSE "read"

Route(idx) ==
    IF idx = vstream_idx THEN "send_packet"
    ELSE IF copy_streams /\ stream_map[idx] >= 0 THEN "copy"
    ELSE "read"

\* av_read_frame: a packet, end of stream, or an error.
ReadFrame ==
    /\ pc = "read"
    /\ ~abort
    /\ \/ /\ nread < MaxPackets
          /\ \E idx \in DOMAIN streams : \E p \in PacketPts(idx, nread + 1) :
               /\ packet' = [stream_index |-> idx, id |-> nread + 1, pts |-> p]
               /\ pc' = Route(idx)
               /\ log' = Append(log, EvP(IF idx = vstream_idx THEN "read_video"
                                         ELSE IF Route(idx) = "copy" THEN "read_copy"
                                         ELSE "read_drop", nread + 1, p))
          /\ nread' = nread + 1
          /\ ret' = 0
          /\ UNCHANGED held
       \/ /\ ret' = AVERROR_EOF
          /\ pc' = "filter_flush"
          /\ log' = Append(log, Ev("eof", 0))
          /\ UNCHANGED <<packet, nread, held>>
       \/ /\ ret' \in ExtErrors
          /\ pc' = "returned"
          /\ log' = Append(log, Ev("error", 0))
          /\ held' = Cleanup(held)
          /\ UNCHANGED <<packet, nread>>
    /\ UNCHANGED <<cfgVars, encVars, ctlVars, processed_frames, frame, processed_frame,
                   flushed_frames, flush_pos, wf_caller, sleeping,
                   dec_buf, filt_buf, enc_buf, enc_eof, muxed, trailer>>

\* avcodec_send_packet refuses input with AVERROR(EAGAIN) only while a decoded
\* frame waits to be received; line 112 treats that status like any error.
DecoderSendAgain ==
    IF Len(dec_buf) > dec_delay THEN {AVERROR_EAGAIN} ELSE {}

\* avcodec_send_packet (lines 111-118).
SendPacket ==
    /\ pc = "send_packet"
    /\ log' = Append(log, Ev("send_packet", packet.id))
    /\ \/ /\ dec_buf' = Append(dec_buf, [id |-> packet.id, pts |-> packet.pts])
          /\ ret' = 0
          /\ pc' = "inner"
          /\ UNCHANGED held
       \/ /\ ret' \in ExtErrors \cup DecoderSendAgain
          /\ pc' = "returned"
          /\ held' = Cleanup(held)
          /\ UNCHANGED dec_buf
    /\ UNCHANGED <<cfgVars, encVars, ctlVars, processed_frames, locVars, sleeping,
                   nread, filt_buf, enc_buf, enc_eof, muxed, trailer>>

\* Lines 167-183: a packet of a mapped non-video stream goes to the muxer.
CopyPacket ==
    /\ pc = "copy"
    /\ log' = Append(log, Ev("mux_copy", packet.id))
    /\ \/ /\ muxed' = Append(muxed, [stream_index |-> stream_map[packet.stream_index],
                                     id |-> packet.id,
                                     pts |-> av_rescale_q(packet.pts,
                                                          in_time_base[packet.stream_index],
                                                          out_time_base[packet.stream_index])])
          /\ ret' = 0
          /\ pc' = "read"
          /\ UNCHANGED held
       \/ /\ ret' \in ExtErrors
          /\ pc' = "returned"
          /\ held' = Cleanup(held)
          /\ UNCHANGED muxed
    /\ UNCHANGED <<cfgVars, encVars, ctlVars, processed_frames, locVars, sleeping,
                   nread, dec_buf, filt_buf, enc_buf, enc_eof, trailer>>

\* InnerLoopBranch with the loop condition of line 120 read as true.
InnerLoopBranch_NoAbortTest(a, p) ==
    IF p THEN "sleep" ELSE "receive"

\* InnerLoopBranch without the test of proc_ctx->pause.
InnerLoopBranch_NoPause(a, p) ==
    IF a THEN "exit" ELSE "receive"

\* What one pass of the receive loop does (lines 120-126), from the two flags.
InnerLoopBranch(a, p) ==
    IF a THEN "exit" ELSE IF p THEN "sleep" ELSE "receive"

\* Line 120 read as false: the receive loop is left, the packet is unreferenced.
InnerAbort ==
    /\ pc = "inner"
    /\ InnerLoopBranch(abort, pause) = "exit"
    /\ pc' = "read"
    /\ sleeping' = FALSE
    /\ log' = Append(log, Ev("abort_inner", 0))
    /\ UNCHANGED <<held, cfgVars, encVars, ctlVars, processed_frames, ret, locVars, extVars>>

\* Lines 121-124: sleep 100 ms and test the flags again.
InnerPause ==
    /\ pc = "inner"
    /\ InnerLoopBranch(abort, pause) = "sleep"
    /\ sleeping' = TRUE
    /\ UNCHANGED <<held, cfgVars, encVars, ctlVars, processed_frames, pc, ret, locVars, extVars, log>>

\* avcodec_receive_frame (lines 126-136).
ReceiveFrame ==
    /\ pc = "inner"
    /\ InnerLoopBranch(abort, pause) = "receive"
    /\ sleeping' = FALSE
    /\ \/ /\ Len(dec_buf) > dec_delay
          /\ frame' = Head(dec_buf)
          /\ dec_buf' = Tail(dec_buf)
          /\ ret' = 0
          /\ pc' = "filter"
          /\ UNCHANGED held
          /\ log' = Append(log, Ev("receive_frame", Head(dec_buf).id))
       \/ /\ Len(dec_buf) <= dec_delay
          /\ ret' = AVERROR_EAGAIN
          /\ pc' = "read"
          /\ log' = Append(log, Ev("receive_again", 0))
          /\ UNCHANGED <<frame, dec_buf, held>>
       \/ /\ ret' \in ExtErrors
          /\ pc' = "returned"
          /\ log' = Append(log, Ev("receive_error", 0))
          /\ held' = Cleanup(held)
          /\ UNCHANGED <<frame, dec_buf>>
    /\ UNCHANGED <<cfgVars, encVars, ctlVars, processed_frames, packet, processed_frame,
                   flushed_frames, flush_pos, wf_caller,
                   nread, filt_buf, enc_buf, enc_eof, muxed, trailer>>


\* Line 214-216 of Encoder::write_frame: a frame without pts gets frame_idx.
SetFramePts(f, frame_idx) ==
    IF f.pts <= 0 THEN [f EXCEPT !.pts = frame_idx] ELSE f

\* The value both call sites of write_frame (lines 148 and 198) pass last.
FrameIdxArg == vstream_idx

\* CountAfterSubmit with the increment moved before the test of the status.
CountAfterSubmit_Always(r, n) ==
    n + 1

\* CountAfterSubmit without the increments of lines 159 and 209.
CountAfterSubmit_Never(r, n) ==
    n

\* proc_ctx->processed_frames after write_frame returned r (lines 149-159, 199-209).
CountAfterSubmit(r, n) ==
    IF r < 0 THEN n ELSE n + 1

\* AfterFlushedPc with the loop ending one frame early.
AfterFlushedPc_OffByOne(pos, frames) ==
    IF pos < Len(frames) THEN "wf_send" ELSE "fe_send"

\* The range-for over flushed_frames (line 197) at position pos: the next frame
\* is written, or the loop is over and flush_encoder is called.
AfterFlushedPc(pos, frames) ==
    IF pos <= Len(frames) THEN "wf_send" ELSE "fe_send"

\* The frame handed to the write_frame call in progress.
WriteFrameArg ==
    IF wf_caller = "loop" THEN processed_frame ELSE flushed_frames[flush_pos]

\* write_frame returns r to its call site: lines 149-162 in the receive loop,
\* lines 199-209 in the loop over the flushed frames.
\* The pointer of the call site that owns the frame given to write_frame.
WriteFrameArgRes ==
    IF wf_caller = "loop" THEN Res("processed_frame") ELSE FlushedRes(flush_pos)

\* What Encoder::write_frame still holds when it returns r before
\* avcodec_send_frame: at the return of line 231 the converted frame of line
\* 220, if the frame needed a conversion.
ConvertedLeft(r) ==
    IF r = AVERROR_ENOMEM THEN {{}, {Res("converted_frame")}} ELSE {{}}

WriteFrameReturn(r, events, left) ==
    /\ processed_frames' = CountAfterSubmit(r, processed_frames)
    /\ held' = LET h == Free(Free(held, Res("enc_pkt")) \cup left, WriteFrameArgRes)
               IN  IF r < 0 THEN Cleanup(h) ELSE h
    /\ log' = log \o events \o <<Ev(IF r < 0 THEN "submit_fail" ELSE "submit_ok",
                                    WriteFrameArg.id)>>
    /\ ret' = r
    /\ IF r < 0
       THEN /\ pc' = "returned"
            /\ UNCHANGED <<frame, flush_pos>>
       ELSE IF wf_caller = "loop"
            THEN /\ pc' = "inner"
                 /\ frame' = NoFrame
                 /\ UNCHANGED flush_pos
            ELSE /\ pc' = AfterFlushedPc(flush_pos + 1, flushed_frames)
                 /\ flush_pos' = flush_pos + 1
                 /\ UNCHANGED frame

\* FilterStatusIsError without the exception for AVERROR(EAGAIN).
FilterStatusIsError_AnyNegative(r) ==
    r < 0

\* The test of line 140 on the status of filter->process_frame.
FilterStatusIsError(r) ==
    r < 0 /\ r # AVERROR_EAGAIN

\* filter->process_frame and the branches on its result (lines 138-162).
FilterProcessFrame ==
    /\ pc = "filter"
    /\ \/ /\ Len(filt_buf) + 1 > filt_delay
          /\ LET buf == Append(filt_buf, frame)
             IN  /\ filt_buf' = Tail(buf)
                 /\ ret' = 0
                 /\ IF benchmark
                    THEN /\ processed_frames' = processed_frames + 1
                         /\ pc' = "inner"
                         /\ frame' = NoFrame
                         /\ UNCHANGED <<processed_frame, wf_caller, held>>
                    ELSE /\ processed_frame' = Head(buf)
                         /\ wf_caller' = "loop"
                         /\ pc' = "wf_send"
                         /\ held' = held \cup {Res("processed_frame")}
                         /\ UNCHANGED <<processed_frames, frame>>
                 /\ log' = log \o <<Ev("process_frame", frame.id), Ev("filter_out", Head(buf).id)>>
       \/ /\ Len(filt_buf) + 1 <= filt_delay
          /\ filt_buf' = Append(filt_buf, frame)
          /\ ret' \in {0, AVERROR_EAGAIN}
          /\ IF FilterStatusIsError(ret')
             THEN /\ pc' = "returned"
                  /\ held' = Cleanup(Free(held, Res("processed_frame")))
                  /\ UNCHANGED frame
             ELSE /\ pc' = "inner"
                  /\ frame' = NoFrame
                  /\ UNCHANGED held
          /\ log' = log \o <<Ev("process_frame", frame.id), Ev("filter_none", frame.id)>>
          /\ UNCHANGED <<processed_frames, processed_frame, wf_caller>>
       \/ /\ ret' \in ExtErrors
          /\ pc' = "returned"
          /\ log' = log \o <<Ev("process_frame", frame.id), Ev("filter_error", frame.id)>>
          /\ held' = Cleanup(Free(held, Res("processed_frame")))
          /\ UNCHANGED <<processed_frames, frame, processed_frame, wf_caller, filt_buf>>
    /\ UNCHANGED <<cfgVars, encVars, ctlVars, packet, flushed_frames, flush_pos, sleeping,
                   nread, dec_buf, enc_buf, enc_eof, muxed, trailer>>

\* avcodec_receive_packet of the encoder: TRUE when a packet comes out.
EncoderHasPacket ==
    IF enc_eof THEN enc_buf # <<>> ELSE Len(enc_buf) > enc_delay

\* avcodec_send_frame refuses input with AVERROR(EAGAIN) only while a packet
\* waits to be received; lines 241 and 289 treat that status like any error.
EncoderSendAgain ==
    IF EncoderHasPacket THEN {AVERROR_EAGAIN} ELSE {}

\* What avcodec_receive_packet returns when no packet comes out.
EncoderNoPacket == IF enc_eof THEN AVERROR_EOF ELSE AVERROR_EAGAIN

\* DrainEndStatus returning the status that ended the drain loop.
DrainEndStatus_Propagate(r) ==
    r

\* The drain loops of Encoder::write_frame and Encoder::flush end on
\* AVERROR(EAGAIN) or AVERROR_EOF and the function returns 0 (lines 250-253,
\* 275-276, 298-301, 323-324).
DrainEndStatus(r) ==
    0

\* Encoder::write_frame up to avcodec_send_frame (lines 209-245).
WriteFrameSend ==
    /\ pc = "wf_send"
    /\ LET f == SetFramePts(WriteFrameArg, FrameIdxArg)
       IN  /\ IF wf_caller = "loop"
              THEN processed_frame' = f /\ UNCHANGED flushed_frames
              ELSE flushed_frames' = [flushed_frames EXCEPT ![flush_pos] = f]
                   /\ UNCHANGED processed_frame
           /\ \/ /\ enc_buf' = Append(enc_buf, f)
                 /\ ret' = 0
                 /\ pc' = "wf_recv"
                 /\ log' = Append(log, Ev("submit", f.id))
                 /\ held' = held \cup {Res("enc_pkt")}
                 /\ UNCHANGED <<processed_frames, frame, flush_pos>>
              \/ /\ \E r \in {AVERROR_EXTERNAL, AVERROR_ENOMEM} \cup ExtErrors
                                \cup EncoderSendAgain :
                   \E left \in ConvertedLeft(r) :
                      WriteFrameReturn(r, <<Ev("submit", f.id)>>, left)
                 /\ UNCHANGED enc_buf
    /\ UNCHANGED <<cfgVars, encVars, ctlVars, packet, wf_caller, sleeping,
                   nread, dec_buf, filt_buf, enc_eof, muxed, trailer>>

\* EncodedPacket tagged with the index of the input video stream.
EncodedPacket_InputIndex(f) ==
    [stream_index |-> vstream_idx, id |-> f.id, pts |-> f.pts]

\* The packet Encoder::write_frame and Encoder::flush write for frame f
\* (lines 260-263, 308-311).
EncodedPacket(f) ==
    [stream_index |-> out_vstream_idx, id |-> f.id, pts |-> f.pts]

\* One pass of the drain loop of Encoder::write_frame (lines 248-276).
WriteFrameReceive ==
    /\ pc = "wf_recv"
    /\ \/ /\ EncoderHasPacket
          /\ enc_buf' = Tail(enc_buf)
          /\ \/ /\ muxed' = Append(muxed, EncodedPacket(Head(enc_buf)))
                /\ ret' = 0
                /\ pc' = "wf_recv"
                /\ log' = Append(log, Ev("mux_video", Head(enc_buf).id))
                /\ UNCHANGED <<processed_frames, frame, flush_pos, held>>
             \/ /\ \E r \in ExtErrors : WriteFrameReturn(r, <<Ev("mux_error", Head(enc_buf).id)>>, {})
                /\ UNCHANGED muxed
       \/ /\ ~EncoderHasPacket
          /\ WriteFrameReturn(DrainEndStatus(EncoderNoPacket), <<>>, {})
          /\ UNCHANGED <<enc_buf, muxed>>
       \/ /\ \E r \in ExtErrors : WriteFrameReturn(r, <<>>, {})
          /\ UNCHANGED <<enc_buf, muxed>>
    /\ UNCHANGED <<cfgVars, encVars, ctlVars, packet, processed_frame, flushed_frames,
                   wf_caller, sleeping, nread, dec_buf, filt_buf, enc_eof, trailer>>

\* FilterDrained for a filter whose flush hands its frames out and keeps them.
FilterDrained_KeepsFrames(buf) ==
    buf

\* What the filter still holds after filter->flush handed out its frames.
FilterDrained(buf) ==
    <<>>

\* filter->flush (lines 187-194) and the entry of the loop over its frames.
FilterFlush ==
    /\ pc = "filter_flush"
    /\ log' = Append(log, Ev("filter_flush", 0))
    /\ \/ /\ flushed_frames' = filt_buf
          /\ filt_buf' = FilterDrained(filt_buf)
          /\ flush_pos' = 1
          /\ wf_caller' = "flushed"
          /\ ret' = 0
          /\ pc' = AfterFlushedPc(1, filt_buf)
          /\ held' = held \cup {FlushedRes(i) : i \in 1..Len(filt_buf)}
       \/ /\ ret' \in ExtErrors
          /\ pc' = "returned"
          /\ held' = Cleanup(held)
          /\ UNCHANGED <<flushed_frames, filt_buf, flush_pos, wf_caller>>
    /\ UNCHANGED <<cfgVars, encVars, ctlVars, processed_frames, packet, frame, processed_frame,
                   sleeping, nread, dec_buf, enc_buf, enc_eof, muxed, trailer>>

\* Encoder::flush up to avcodec_send_frame(NULL) (lines 279-293).
FlushSend ==
    /\ pc = "fe_send"
    /\ log' = Append(log, Ev("encoder_flush", 0))
    /\ \/ /\ enc_eof' = TRUE
          /\ ret' = 0
          /\ pc' = "fe_recv"
          /\ held' = held \cup {Res("enc_pkt")}
       \/ /\ ret' \in {AVERROR_ENOMEM} \cup ExtErrors \cup EncoderSendAgain
          /\ pc' = "returned"
          /\ held' = Cleanup(held)
          /\ UNCHANGED enc_eof
    /\ UNCHANGED <<cfgVars, encVars, ctlVars, processed_frames, locVars, sleeping,
                   nread, dec_buf, filt_buf, enc_buf, muxed, trailer>>

\* One pass of the drain loop of Encoder::flush (lines 296-325); when it ends
\* process_frames returns (lines 213-222).
FlushReceive ==
    /\ pc = "fe_recv"
    /\ \/ /\ EncoderHasPacket
          /\ enc_buf' = Tail(enc_buf)
          /\ \/ /\ muxed' = Append(muxed, EncodedPacket(Head(enc_buf)))
                /\ ret' = 0
                /\ pc' = "fe_recv"
                /\ UNCHANGED held
                /\ log' = Append(log, Ev("mux_video", Head(enc_buf).id))
             \/ /\ ret' \in ExtErrors
                /\ pc' = "returned"
                /\ held' = Cleanup(Free(held, Res("enc_pkt")))
                /\ log' = Append(log, Ev("mux_error", Head(enc_buf).id))
                /\ UNCHANGED muxed
       \/ /\ ~EncoderHasPacket
          /\ ret' = DrainEndStatus(EncoderNoPacket)
          /\ pc' = "returned"
          /\ held' = Cleanup(Free(held, Res("enc_pkt")))
          /\ log' = Append(log, Ev("encoder_flushed", 0))
          /\ UNCHANGED <<enc_buf, muxed>>
       \/ /\ ret' \in ExtErrors
          /\ pc' = "returned"
          /\ held' = Cleanup(Free(held, Res("enc_pkt")))
          /\ log' = Append(log, Ev("error", 0))
          /\ UNCHANGED <<enc_buf, muxed>>
    /\ UNCHANGED <<cfgVars, encVars, ctlVars, processed_frames, locVars, sleeping,
                   nread, dec_buf, filt_buf, enc_eof, trailer>>

\* ------------------------------------------------------------- process_video
\* ProcessVideoStatus reporting every failure as AVERROR_UNKNOWN.
ProcessVideoStatus_Generic(r) ==
    IF r < 0 THEN AVERROR_UNKNOWN ELSE 0

\* What process_video returns when process_frames returned r (lines 454-471).
ProcessVideoStatus(r) ==
    IF r < 0 THEN r ELSE 0

\* Lines 454-472: an error of process_frames is returned as it is; otherwise
\* the trailer is written.
ProcessVideoReturn ==
    /\ pc = "returned"
    /\ pc' = "done"
    /\ ret' = ProcessVideoStatus(ret)
    /\ trailer' = (ret >= 0)
    /\ UNCHANGED <<held, cfgVars, encVars, ctlVars, processed_frames, locVars, sleeping,
                   nread, dec_buf, filt_buf, enc_buf, enc_eof, muxed, log>>

\* ------------------------------------------------- the supervising controller
Running == pc \notin {"init", "returned", "done"}

SetPause ==
    /\ Running /\ ~pause
    /\ pause' = TRUE
    /\ UNCHANGED <<held, cfgVars, encVars, abort, mark, processed_frames, pc, ret, locVars, sleeping,
                   extVars, log>>

ClearPause ==
    /\ Running /\ pause
    /\ pause' = FALSE
    /\ mark' = NoMark
    /\ UNCHANGED <<held, cfgVars, encVars, abort, processed_frames, pc, ret, locVars, sleeping,
                   extVars, log>>

SetAbort ==
    /\ Running /\ ~abort
    /\ abort' = TRUE
    /\ mark' = NoMark
    /\ UNCHANGED <<held, cfgVars, encVars, pause, processed_frames, pc, ret, locVars, sleeping,
                   extVars, log>>

\* The controller sets pause, with abort unset, and the position of the run at
\* that instant is kept until pause is cleared or abort is set.
SetPauseMarked ==
    /\ Running /\ ~pause /\ ~abort
    /\ pause' = TRUE
    /\ mark' = [nread |-> nread, muxed |-> Len(muxed), processed |-> processed_frames,
                flush |-> Count("filter_flush")]
    /\ UNCHANGED <<held, cfgVars, encVars, abort, processed_frames, pc, ret, locVars, sleeping,
                   extVars, log>>

\* ------------------------------------------------------------ specification
Init ==
    /\ streams \in Layouts
    /\ vstream_idx \in {i \in DOMAIN streams : streams[i] = "video"}
    /\ copy_streams \in BOOLEAN
    /\ benchmark \in BOOLEAN
    /\ dec_delay \in 0..MaxDelay
    /\ filt_delay \in 0..MaxFiltDelay
    /\ enc_delay \in 0..MaxDelay
    /\ in_time_base = [i \in DOMAIN streams |-> UnitTimeBase]
    /\ out_time_base = [i \in DOMAIN streams |-> UnitTimeBase]
    /\ stream_map = <<>>
    /\ out_streams = <<>>
    /\ out_vstream_idx = -1
    /\ pause = FALSE
    /\ mark = NoMark
    /\ abort = FALSE
    /\ processed_frames = 0
    /\ pc = "init"
    /\ ret = 0
    /\ packet = NoPacket
    /\ frame = NoFrame
    /\ processed_frame = NoFrame
    /\ flushed_frames = <<>>
    /\ flush_pos = 1
    /\ wf_caller = "loop"
    /\ sleeping = FALSE
    /\ nread = 0
    /\ dec_buf = <<>>
    /\ filt_buf = <<>>
    /\ enc_buf = <<>>
    /\ enc_eof = FALSE
    /\ muxed = <<>>
    /\ trailer = FALSE
    /\ held = {}
    /\ log = <<>>

Next ==
    \/ EncoderInit
    \/ ProcessFramesStart
    \/ ReadAbort
    \/ ReadFrame
    \/ SendPacket
    \/ CopyPacket
    \/ InnerAbort
    \/ InnerPause
    \/ ReceiveFrame
    \/ FilterProcessFrame
    \/ WriteFrameSend
    \/ WriteFrameReceive
    \/ FilterFlush
    \/ FlushSend
    \/ FlushReceive
    \/ ProcessVideoReturn
    \/ SetPause
    \/ ClearPause
    \/ SetAbort

Spec == Init /\ [][Next]_vars

\* The flush sequence of lines 187-219 run a second time after a successful
\* return: filter->flush, the loop over its frames, Encoder::flush.
Reflush ==
    /\ pc = "returned"
    /\ ret = 0
    /\ Count("reflush") = 0
    /\ pc' = "filter_flush"
    /\ log' = Append(log, Ev("reflush", 0))
    /\ UNCHANGED <<held, cfgVars, encVars, ctlVars, processed_frames, ret, locVars, sleeping,
                   extVars>>

\* Runs that copy streams and encode, with the flush sequence run twice.
InitReflush ==
    /\ Init
    /\ copy_streams
    /\ ~benchmark

NextReflush ==
    \/ Next
    \/ Reflush

SpecReflush == InitReflush /\ [][NextReflush]_vars

\* Runs that copy the packets of the other streams, over every choice of the
\* time bases of the copied streams; the codecs and the filter have no latency.
InitCopy ==
    /\ streams \in CopyLayouts
    /\ vstream_idx = 1
    /\ copy_streams = TRUE
    /\ benchmark = FALSE
    /\ dec_delay = 0
    /\ filt_delay = 0
    /\ enc_delay = 0
    /\ in_time_base \in [DOMAIN streams -> TimeBases]
    /\ out_time_base \in [DOMAIN streams -> TimeBases]
    /\ in_time_base[vstream_idx] = UnitTimeBase
    /\ out_time_base[vstream_idx] = UnitTimeBase
    /\ stream_map = <<>>
    /\ out_streams = <<>>
    /\ out_vstream_idx = -1
    /\ pause = FALSE
    /\ mark = NoMark
    /\ abort = FALSE
    /\ processed_frames = 0
    /\ pc = "init"
    /\ ret = 0
    /\ packet = NoPacket
    /\ frame = NoFrame
    /\ processed_frame = NoFrame
    /\ flushed_frames = <<>>
    /\ flush_pos = 1
    /\ wf_caller = "loop"
    /\ sleeping = FALSE
    /\ nread = 0
    /\ dec_buf = <<>>
    /\ filt_buf = <<>>
    /\ enc_buf = <<>>
    /\ enc_eof = FALSE
    /\ muxed = <<>>
    /\ trailer = FALSE
    /\ held = {}
    /\ log = <<>>

SpecCopy == InitCopy /\ [][Next]_vars

\* Runs that copy streams and encode, with the position of the run recorded
\* whenever the controller sets pause.
InitPause ==
    /\ Init
    /\ copy_streams
    /\ ~benchmark

NextPause ==
    \/ Next
    \/ SetPauseMarked

SpecPause == InitPause /\ [][NextPause]_vars

\* A step of the thread that runs process_video.
ThreadStep ==
    \/ EncoderInit
    \/ ProcessFramesStart
    \/ ReadAbort
    \/ ReadFrame
    \/ SendPacket
    \/ CopyPacket
    \/ InnerAbort
    \/ InnerPause
    \/ ReceiveFrame
    \/ FilterProcessFrame
    \/ WriteFrameSend
    \/ WriteFrameReceive
    \/ FilterFlush
    \/ FlushSend
    \/ FlushReceive
    \/ ProcessVideoReturn

\* Runs on an audio and a video stream in which the thread of process_video
\* keeps running: every external call returns and the thread is scheduled
\* again, while the controller sets and clears the flags as it likes.
InitLive ==
    /\ Init
    /\ streams = [i \in 0..1 |-> IF i = 0 THEN "audio" ELSE "video"]
    /\ copy_streams
    /\ ~benchmark
    /\ dec_delay = 0

SpecLive == InitLive /\ [][Next]_vars /\ WF_vars(ThreadStep)

\* Encoder::init alone, on every list of up to MaxStreams input streams.
InitMap ==
    /\ streams \in StreamLists
    /\ vstream_idx \in {i \in DOMAIN streams : streams[i] = "video"}
    /\ copy_streams \in BOOLEAN
    /\ benchmark = FALSE
    /\ dec_delay = 0
    /\ filt_delay = 0
    /\ enc_delay = 0
    /\ in_time_base = [i \in DOMAIN streams |-> UnitTimeBase]
    /\ out_time_base = [i \in DOMAIN streams |-> UnitTimeBase]
    /\ stream_map = <<>>
    /\ out_streams = <<>>
    /\ out_vstream_idx = -1
    /\ pause = FALSE
    /\ mark = NoMark
    /\ abort = FALSE
    /\ processed_frames = 0
    /\ pc = "init"
    /\ ret = 0
    /\ packet = NoPacket
    /\ frame = NoFrame
    /\ processed_frame = NoFrame
    /\ flushed_frames = <<>>
    /\ flush_pos = 1
    /\ wf_caller = "loop"
    /\ sleeping = FALSE
    /\ nread = 0
    /\ dec_buf = <<>>
    /\ filt_buf = <<>>
    /\ enc_buf = <<>>
    /\ enc_eof = FALSE
    /\ muxed = <<>>
    /\ trailer = FALSE
    /\ held = {}
    /\ log = <<>>

NextMap == EncoderInit

SpecMap == InitMap /\ [][NextMap]_vars


\* ------------------------------------------------------------------ claims
\* Positions of the log after position i.
After(i) == (i + 1)..Len(log)

\* The ids of the video packets read so far.
VideoIds == {log[i].id : i \in Logged("read_video")}

IsVideoPacket(p) == p.id \in VideoIds

\* The packets written to the output video stream, in the order written.
VideoMuxed == SelectSeq(muxed, IsVideoPacket)

\* The run reached end of stream and never saw abort set.
EofNoAbort ==
    /\ Count("eof") = 1
    /\ Count("abort_read") = 0
    /\ Count("abort_inner") = 0

\* process_video returned success.
DoneOk == pc = "done" /\ ret = 0 /\ trailer

\* C1: in a run that reaches end of stream without error and without abort,
\* when the output is finalized no frame is left inside the decoder, the
\* filter or the encoder, and every video frame of the input has been written
\* exactly once.
C1_EveryFrameEmittedOnce ==
    (DoneOk /\ EofNoAbort /\ ~benchmark) =>
        /\ dec_buf = <<>>
        /\ filt_buf = <<>>
        /\ enc_buf = <<>>
        /\ \A v \in VideoIds :
             Cardinality({i \in 1..Len(muxed) : muxed[i].id = v}) = 1

\* C2: once the control loop has seen abort set at an input read, there is no
\* filter flush, no submit, no encoder flush and no write to the muxer.
C2_AbortDoesNotDrain ==
    \A i \in Logged("abort_read") : \A j \in After(i) :
        log[j].op \notin {"filter_flush", "submit", "encoder_flush", "mux_video", "mux_copy"}

\* C3: after the control loop has checked abort and found it set, it makes no
\* decoder send-packet call, no receive-frame call and no submit call.
C3_NoCallAfterAbortSeen ==
    \A i \in Logged("abort_read") \cup Logged("abort_inner") : \A j \in After(i) :
        log[j].op \notin {"send_packet", "receive_frame", "receive_again",
                          "receive_error", "submit"}

\* C4: after a run that ends at end of stream without error or abort,
\* processed_frames is the number of frames the decoder produced (benchmark
\* mode) or of frames encoded (normal mode), and, the filter dropping no
\* frame, it is the number of video frames of the input.
C4_ProcessedFramesIsTotal ==
    (DoneOk /\ EofNoAbort) =>
        /\ processed_frames =
              IF benchmark THEN Count("receive_frame") ELSE Count("submit_ok")
        /\ processed_frames = Cardinality(VideoIds)

\* C5: processed_frames grows by one at a time and never decreases; in normal
\* mode it is the number of write_frame calls that returned success; a frame
\* the filter gave no output for is never counted.
C5_CountsSuccessfulSubmits ==
    /\ [](/\ ~benchmark => processed_frames = Count("submit_ok")
          /\ processed_frames <= Count("filter_out") + Len(flushed_frames))
    /\ [][processed_frames' = processed_frames
            \/ processed_frames' = processed_frames + 1]_vars

C5_Witness ==
    /\ ~benchmark
    /\ Count("submit_fail") = 1
    /\ Count("filter_none") >= 1
    /\ processed_frames = 1

\* C6: in benchmark mode no frame is ever submitted to the encoder.
C6_BenchmarkNeverSubmits ==
    benchmark => Count("submit") = 0

\* The ids of the frames submitted after position i of the log, in order.
IsSubmit(e) == e.op = "submit"
SubmittedAfter(i) ==
    LET evs == SelectSeq(SubSeq(log, i + 1, Len(log)), IsSubmit)
    IN  [k \in 1..Len(evs) |-> evs[k].id]

\* C7: the filter flush comes after the last process_frame call, the encoder
\* flush after the last submit, nothing but the drain follows the encoder
\* flush; a run of process_frames that returns success has made each flush
\* exactly once and has submitted the flushed frames in the order returned.
C7_FlushProtocol ==
    /\ Count("filter_flush") <= 1
    /\ Count("encoder_flush") <= 1
    /\ \A i \in Logged("filter_flush") : \A j \in After(i) :
         log[j].op # "process_frame"
    /\ \A i \in Logged("encoder_flush") : \A j \in After(i) :
         log[j].op \notin {"process_frame", "submit", "filter_flush"}
    /\ (pc \in {"returned", "done"} /\ ret = 0) =>
         /\ Count("filter_flush") = 1
         /\ Count("encoder_flush") = 1
         /\ \A i \in Logged("filter_flush") :
              SubmittedAfter(i) = [k \in 1..Len(flushed_frames) |-> flushed_frames[k].id]

C7_Witness ==
    /\ DoneOk
    /\ Len(flushed_frames) = 2
    /\ Count("submit_ok") = 2

\* C8: the pts values written to the output video stream never decrease.
C8_PtsNonDecreasing ==
    \A i, j \in 1..Len(VideoMuxed) :
        i < j => VideoMuxed[i].pts <= VideoMuxed[j].pts

\* C9: when no video frame of the input carries a pts, the k-th packet written
\* to the output video stream has pts k - 1.
C9_SequenceNumberFallback ==
    (\A i \in Logged("read_video") : log[i].pts <= 0) =>
        \A k \in 1..Len(VideoMuxed) : VideoMuxed[k].pts = k - 1

\* C10: while pause is set and abort is not, a pass of the receive loop makes
\* no call and changes neither the counter, the packet nor the decoder, so the
\* loop resumes where it stopped.
C10_PauseSuspendsReceiveLoop ==
    [][(pc = "inner" /\ pause /\ ~abort) =>
          /\ pc' = "inner"
          /\ log' = log
          /\ processed_frames' = processed_frames
          /\ packet' = packet
          /\ frame' = frame
          /\ nread' = nread
          /\ dec_buf' = dec_buf
          /\ filt_buf' = filt_buf
          /\ enc_buf' = enc_buf
          /\ muxed' = muxed]_vars

C10_Witness ==
    /\ pc = "inner"
    /\ pause
    /\ ~abort
    /\ sleeping
    /\ Len(dec_buf) > dec_delay

\* C11: once Encoder::init has built the stream map, the map, the output
\* streams and the output video stream index never change, and the map sends
\* the designated input video stream to the output video stream.
C11_StreamMapFixed ==
    /\ []((pc # "init" /\ DOMAIN stream_map # {}) =>
             stream_map[vstream_idx] = out_vstream_idx)
    /\ [][pc # "init" =>
             /\ stream_map' = stream_map
             /\ out_streams' = out_streams
             /\ out_vstream_idx' = out_vstream_idx]_vars

C11_Witness ==
    /\ pc = "read"
    /\ copy_streams
    /\ vstream_idx = 1
    /\ Count("read_copy") >= 1
    /\ stream_map[vstream_idx] = 0

\* The input streams other than the video stream that Encoder::init copies.
CopiedStreams ==
    {i \in DOMAIN streams : i # vstream_idx /\ streams[i] \in {"audio", "subtitle"}}

\* C12: with copy_streams set, Encoder::init creates the output video stream
\* and one output stream per other audio or subtitle input stream, of the same
\* type, and maps every other input stream to -1.
C12_OutputStreamsCreated ==
    (pc = "start" /\ copy_streams) =>
        /\ Len(out_streams) = 1 + Cardinality(CopiedStreams)
        /\ out_streams[out_vstream_idx + 1] = "video"
        /\ \A i \in CopiedStreams :
             /\ stream_map[i] \in 1..(Len(out_streams) - 1)
             /\ out_streams[stream_map[i] + 1] = streams[i]
        /\ \A i \in DOMAIN streams \ (CopiedStreams \cup {vstream_idx}) :
             stream_map[i] = -1

\* One video, one audio and one stream of another type give two output streams.
C12_Witness ==
    /\ pc = "start"
    /\ copy_streams
    /\ Cardinality(DOMAIN streams) = 3
    /\ {streams[i] : i \in DOMAIN streams} = {"video", "audio", "data"}
    /\ Len(out_streams) = 2

\* The packet just read is of a stream the loop neither decodes nor copies.
Discarded(p) ==
    /\ p.stream_index # vstream_idx
    /\ ~copy_streams \/ stream_map[p.stream_index] < 0

\* C13: reading a packet of an unmapped stream, or any non-video packet when
\* copy_streams is off, changes nothing but the read position: decoder,
\* filter, encoder and muxer are untouched, processed_frames keeps its value
\* and the loop is back at av_read_frame.
C13_DiscardedPacketNoEffect ==
    [][(pc = "read" /\ nread' = nread + 1 /\ Discarded(packet')) =>
          /\ pc' = "read"
          /\ ret' = 0
          /\ UNCHANGED <<dec_buf, filt_buf, enc_buf, enc_eof, muxed, trailer,
                         processed_frames, frame, processed_frame>>]_vars

C13_Witness ==
    /\ pc = "read"
    /\ copy_streams
    /\ nread = 2
    /\ Discarded(packet)
    /\ packet.id = 2
    /\ Count("read_video") = 1

Fatal(r) == r < 0 /\ r \notin {AVERROR_EAGAIN, AVERROR_EOF}

\* C15: when a call made by process_frames leaves a fatal status in ret, the
\* same step returns from process_frames without writing to the muxer; from
\* then on the status stays as it is, no call is made any more (the buffers of
\* decoder, filter, encoder and muxer and the call history stay as they are)
\* and the trailer is not written.
C15_FatalStatusStopsRun ==
    /\ []((pc \in {"returned", "done"} /\ ret < 0) => ~trailer)
    /\ [][/\ (Running /\ Fatal(ret')) => (pc' = "returned" /\ muxed' = muxed)
          /\ (pc \in {"returned", "done"} /\ ret < 0) =>
                /\ pc' \in {"returned", "done"}
                /\ ret' = ret
                /\ UNCHANGED <<extVars, processed_frames, log>>]_vars

\* A run ended by a failing muxer write after a packet had been written.
C15_Witness ==
    /\ pc = "done"
    /\ ret \in ExtErrors
    /\ Count("mux_video") >= 1
    /\ Count("mux_error") = 1
    /\ ~trailer

\* C16: when process_frames has returned, every frame and packet allocated by
\* process_frames, Encoder::write_frame and Encoder::flush has been freed.
C16_AllReleasedAtReturn ==
    pc \in {"returned", "done"} => held = {}

\* What is still held at a return is the converted frame and nothing else.
OnlyConvertedFrameLeaks ==
    pc \in {"returned", "done"} => held \subseteq {Res("converted_frame")}

\* Frames received from the decoder so far.
Decoded == Count("receive_frame")

\* process_frames stands between two passes of its loops, before filter->flush.
BetweenFrames ==
    /\ pc \in {"read", "send_packet", "copy", "inner", "filter_flush"}
    /\ Count("filter_flush") = 0

\* The frame at position i of flushed_frames was submitted after filter->flush.
FlushedSubmitted(i) ==
    \E j \in Logged("filter_flush") : \E n \in (j + 1)..Len(log) :
        log[n].op = "submit_ok" /\ log[n].id = flushed_frames[i].id

\* C17: with a filter that holds filt_delay frames back, processed_frames is
\* filt_delay short of the frames decoded (0 while fewer were decoded) as long
\* as filter->flush has not run; it equals the number of decoded frames only
\* after filter->flush returned the frames held back and each was submitted,
\* and it does so at every successful return.
C17_WarmUpFramesCountedAfterFlush ==
    /\ BetweenFrames =>
          processed_frames = (IF Decoded > filt_delay THEN Decoded - filt_delay ELSE 0)
    /\ (filt_delay >= 1 /\ Decoded >= 1 /\ processed_frames = Decoded) =>
          /\ Count("filter_flush") = 1
          /\ Len(flushed_frames) = (IF Decoded > filt_delay THEN filt_delay ELSE Decoded)
          /\ \A i \in 1..Len(flushed_frames) : FlushedSubmitted(i)
    /\ (pc \in {"returned", "done"} /\ ret = 0) => processed_frames = Decoded

\* Two frames decoded through a filter holding MaxFiltDelay frames back: none
\* came out of process_frame, both came out of the flush and were counted.
C17_Witness ==
    /\ pc = "done"
    /\ ret = 0
    /\ filt_delay = MaxFiltDelay
    /\ Decoded = MaxPackets
    /\ Count("filter_none") = MaxPackets
    /\ Len(flushed_frames) = MaxPackets
    /\ processed_frames = MaxPackets

\* C18: when filter->flush and Encoder::flush have completed and the flush
\* sequence is run a second time, the second run writes no packet to the muxer.
C18_SecondFlushWritesNothing ==
    [][Count("reflush") = 1 => muxed' = muxed]_vars

\* The second flush sequence completed after a first one that wrote the
\* packets the encoder had held back.
C18_Witness ==
    /\ pc = "returned"
    /\ ret = 0
    /\ Count("reflush") = 1
    /\ Count("encoder_flushed") = 2
    /\ enc_delay >= 1
    /\ filt_delay >= 1
    /\ Len(muxed) >= 2

\* C19: every packet the encoder produced carries, when written to the muxer,
\* the index of the output video stream, which is the entry of the stream map
\* for the input video stream, wherever the video stream stands in the input.
C19_VideoPacketsTagged ==
    \A n \in 1..Len(muxed) :
        IsVideoPacket(muxed[n]) =>
            /\ muxed[n].stream_index = out_vstream_idx
            /\ out_streams[muxed[n].stream_index + 1] = "video"
            /\ copy_streams => stream_map[vstream_idx] = muxed[n].stream_index

\* The video stream is input stream 1 behind a copied audio stream; the output
\* holds a copied packet and a video packet written by Encoder::flush.
C19_Witness ==
    /\ pc = "done"
    /\ ret = 0
    /\ copy_streams
    /\ vstream_idx = 1
    /\ enc_delay = 1
    /\ Len(VideoMuxed) = 1
    /\ Len(muxed) = 2

\* The ids of the packets read from mapped non-video streams, in the order read.
CopyReads == [n \in 1..Count("read_copy") |->
                 log[CHOOSE i \in Logged("read_copy") :
                        Cardinality({j \in Logged("read_copy") : j <= i}) = n].id]

\* The packets of muxed that the encoder did not produce, in the order written.
CopyMuxed == SelectSeq(muxed, LAMBDA p : ~IsVideoPacket(p))

\* The packet read last is still to be written, or its write failed.
CopyPending ==
    \/ pc = "copy"
    \/ pc \in {"returned", "done"} /\ ret < 0 /\ log # <<>> /\ log[Len(log)].op = "mux_copy"

\* x is t, a timestamp in units of time base bq, in units of time base cq,
\* rounded to the nearest integer.
Rescaled(x, t, bq, cq) ==
    LET b == bq.num * cq.den
        c == cq.num * bq.den
        d == x * c - t * b
    IN  2 * (IF d >= 0 THEN d ELSE -d) <= c

\* C20: the packets of mapped non-video streams are in the output exactly
\* once and in the order read; the step that writes one appends it with the
\* output index of the stream map and its timestamp rescaled from the time
\* base of the input stream to that of the output stream, and touches neither
\* decoder, filter, encoder nor processed_frames.
C20_CopiedPacketsWritten ==
    /\ [](LET n == Len(CopyMuxed)
          IN  /\ n = Count("read_copy") - (IF CopyPending THEN 1 ELSE 0)
              /\ \A i \in 1..n : CopyMuxed[i].id = CopyReads[i])
    /\ [][(pc = "copy" /\ pc' = "read") =>
             /\ Len(muxed') = Len(muxed) + 1
             /\ SubSeq(muxed', 1, Len(muxed)) = muxed
             /\ LET p == muxed'[Len(muxed')]
                    i == packet.stream_index
                IN  /\ p.id = packet.id
                    /\ p.stream_index = stream_map[i]
                    /\ p.stream_index >= 1
                    /\ out_streams[p.stream_index + 1] = streams[i]
                    /\ Rescaled(p.pts, packet.pts, in_time_base[i], out_time_base[i])
             /\ UNCHANGED <<dec_buf, filt_buf, enc_buf, enc_eof, processed_frames>>]_vars

\* Two packets of two copied streams were written, the second with a
\* timestamp that the change of time base rounds.
C20_Witness ==
    /\ pc = "read"
    /\ Len(CopyMuxed) = 2
    /\ CopyMuxed[1].stream_index # CopyMuxed[2].stream_index
    /\ in_time_base[packet.stream_index] = [num |-> 1, den |-> 3]
    /\ out_time_base[packet.stream_index] = [num |-> 1, den |-> 2]
    /\ packet.pts = 2 * PtsStep
    /\ CopyMuxed[2].pts # packet.pts

\* C21: when filter->process_frame keeps the frame and gives none back, with
\* status 0 or AVERROR(EAGAIN), the loop does not call write_frame, leaves
\* processed_frames as it is, does not return, unrefs the decoded frame and is
\* back at the head of the receive loop.
C21_NoOutputSkipsSubmit ==
    [][(pc = "filter" /\ Len(filt_buf') > Len(filt_buf)) =>
          /\ pc' = "inner"
          /\ ret' \in {0, AVERROR_EAGAIN}
          /\ frame' = NoFrame
          /\ processed_frames' = processed_frames
          /\ Count("submit")' = Count("submit")
          /\ UNCHANGED <<enc_buf, muxed, held>>]_vars

\* The filter answered AVERROR(EAGAIN) and the loop stands at the next
\* avcodec_receive_frame.
C21_Witness ==
    /\ pc = "inner"
    /\ ret = AVERROR_EAGAIN
    /\ log # <<>>
    /\ log[Len(log)].op = "filter_none"
    /\ filt_buf # <<>>
    /\ frame = NoFrame
    /\ processed_frames = 0

\* Packets read, packets written to the muxer, frames counted and flushes
\* started since the controller set pause.
PausedWork ==
    (nread - mark.nread) + (Len(muxed) - mark.muxed)
        + (processed_frames - mark.processed) + (Count("filter_flush") - mark.flush)

\* C22: while pause stays set with abort unset, the loop does no more than
\* what lies between two tests of pause in the receive loop (a frame counted
\* and its packet written, or a packet read): at most two of these steps
\* since pause was set, and no more until pause is cleared.
C22_PauseStopsProgress ==
    mark # NoMark => PausedWork <= 2

\* process_frames has returned.
Returned == pc \in {"returned", "done"}

\* C23: if pause is eventually unset for good, or abort is eventually set,
\* process_frames eventually returns; and a step taken inside the receive loop
\* with pause set and abort unset stays inside the receive loop, so that
\* process_frames does not return while this lasts.
C23_ReturnsUnlessPaused ==
    /\ (<>[](~pause) \/ <>abort) => <>Returned
    /\ [][(pc = "inner" /\ pause /\ ~abort) => pc' = "inner"]_vars

\* abort ended a receive loop that pause had suspended, and process_frames
\* returned with pause still set.
C23_Witness ==
    /\ pc = "returned"
    /\ pause
    /\ abort
    /\ Count("abort_inner") = 1
    /\ Count("encoder_flush") = 1

\* C24: with copy_streams set, no two input streams share an output stream,
\* no input stream but the designated video stream is mapped to the output
\* video stream, and every entry that is not -1 is the index of an output
\* stream that exists.
C24_StreamMapInjective ==
    (pc = "start" /\ copy_streams) =>
        /\ \A i, j \in DOMAIN streams :
             (i # j /\ stream_map[i] >= 0 /\ stream_map[j] >= 0) =>
                 stream_map[i] # stream_map[j]
        /\ \A i \in DOMAIN streams \ {vstream_idx} : stream_map[i] # out_vstream_idx
        /\ \A i \in DOMAIN streams :
             stream_map[i] = -1 \/ stream_map[i] \in 0..(Len(out_streams) - 1)

\* Three input streams, the video stream in the middle, mapped to three
\* output streams.
C24_Witness ==
    /\ pc = "start"
    /\ copy_streams
    /\ vstream_idx = 1
    /\ Cardinality(DOMAIN streams) = 3
    /\ Len(out_streams) = 3
    /\ \A i \in DOMAIN streams : stream_map[i] >= 0

====
